---- MODULE Spec2Model ----
(***************************************************************************)
(* Task queue, lifecycle state machine, startup reconciliation and webhook *)
(* delivery of the Browser-Use API server (src/api).                       *)
(*                                                                         *)
(* The durable state is the SQLite table `tasks` (api/database.py).  The   *)
(* in-memory state is the TaskQueue singleton (api/task_queue.py): queue,  *)
(* current_task_id, running, worker_task.  The worker coroutine is         *)
(* modelled by its position (wpc) and its locals; every action below is    *)
(* one run of the coroutine between two awaits, so other coroutines and    *)
(* a cancellation can only come between two actions, as under asyncio.     *)
(*                                                                         *)
(* Environment of the model:                                               *)
(*  - the store is reliable (a statement never raises); in FaultSpec       *)
(*    update_callback_attempt may raise;                                   *)
(*  - TaskQueue.add_task has no caller in the repository; it is called     *)
(*    here once per created record, while the record is still queued       *)
(*    (the control flow submit -> create -> enqueue id);                   *)
(*  - TaskQueue.start/stop/add_task are coroutines and run in the event    *)
(*    loop, which the server enters through lifespan(); they are called    *)
(*    only while the application serves;                                   *)
(*  - the Executor (Agent.run under asyncio.wait_for) returns, raises or   *)
(*    honours the cancellation wait_for sends on timeout (Spec); in        *)
(*    HangSpec it may also ignore the cancellation and never return;       *)
(*  - datetime.utcnow() stands still in Spec and advances in TimedSpec     *)
(*    (no branch of the code reads the clock).                             *)
(***************************************************************************)
EXTENDS Integers, Sequences, FiniteSets, TLC

\* ---------------------------------------------------------------- bounds
\* number of task ids a run may create (uuid4 values, taken in order)
NumTasks == 2
\* largest value of the wall clock (datetime.utcnow)
MaxClock == 1
\* number of times the process may be terminated and started again
MaxRestarts == 1

\* ------------------------------------------------------ program constants
WEBHOOK_RETRY_ATTEMPTS == 3
WEBHOOK_RETRY_DELAY == 2
MIN_TASK_TIMEOUT == 30
MAX_TASK_TIMEOUT == 3600
DEFAULT_TASK_TIMEOUT == 300
\* int(os.getenv("MAX_QUEUE_SIZE", "100")): a deployment that sets it to 1
MAX_QUEUE_SIZE == 1

\* SQL NULL / Python None in a text column, and in a TIMESTAMP column
None == "None"
NoTime == -1
\* current_task_id = None
NoTask == 0

TaskIds == 1..NumTasks
\* request.callback_url values a caller may send (None: no callback)
CallbackUrls == {None, "http://example/cb"}
\* request.timeout values a caller may send
RequestTimeouts ==
    {MIN_TASK_TIMEOUT - 1, DEFAULT_TASK_TIMEOUT, MAX_TASK_TIMEOUT + 1}

\* the status strings the code writes
Terminal == {"completed", "failed", "timeout"}
RestartError == "Server restarted during execution"
TimeoutError == "Task exceeded timeout"
ExecutionError == "Task execution error"
CallbackError == "Callback attempt failed"
ResultStr == "done"

VARIABLES
    \* durable: the rows of table tasks, a function from task_id to row
    tasks,
    \* process: "boot" (lifespan startup not finished) or "serving"
    phase,
    \* TaskQueue fields
    queue, current_task_id, running,
    \* worker_task: the worker coroutine, its position (pc) and its locals
    w,
    \* stop() is suspended in `await self.worker_task`
    stopping,
    \* Executor calls left in flight by abandoned worker tasks
    orphans,
    \* wall clock
    now,
    \* uuid4: number of ids drawn so far
    next_id,
    \* history: process lifetime number; lifetime a record was created in;
    \* of this lifetime: ids in the order add_task put them, whether stop()
    \* was called, and per id whose _execute_task returned how its Executor
    \* call ended ("norow" when there was no record); webhook POSTs attempted
    \* per id (the payload status of each); ids one of whose POSTs was
    \* answered 2xx
    epoch, born, enqueued, stop_called, processed, posts, delivered

vars == <<tasks, phase, queue, current_task_id, running, w, stopping,
          orphans, now, next_id, epoch, born, enqueued, stop_called,
          processed, posts, delivered>>

history == <<epoch, born, enqueued, stop_called, processed, posts, delivered>>

Range(s) == {s[i] : i \in DOMAIN s}

\* ------------------------------------------------------------ TaskDatabase

NewRow_started(callback_url, timeout, ts) ==
    [status |-> "queued", callback_url |-> callback_url, timeout |-> timeout,
     result |-> None, error |-> None,
     callback_attempts |-> 0, last_callback_error |-> None,
     created_at |-> ts, started_at |-> ts, completed_at |-> NoTime]

\* INSERT INTO tasks (...) VALUES (..., 'queued', now); other columns default
NewRow(callback_url, timeout, ts) ==
    [status |-> "queued", callback_url |-> callback_url, timeout |-> timeout,
     result |-> None, error |-> None,
     callback_attempts |-> 0, last_callback_error |-> None,
     created_at |-> ts, started_at |-> NoTime, completed_at |-> NoTime]

\* TaskDatabase.create_task
create_task_row(t, task_id, callback_url, timeout, ts) ==
    [i \in DOMAIN t \cup {task_id} |->
        IF i = task_id THEN NewRow(callback_url, timeout, ts) ELSE t[i]]

\* get_task: SELECT * FROM tasks WHERE task_id = ?; the row, or None
get_task(t, task_id) == IF task_id \in DOMAIN t THEN t[task_id] ELSE None

mark_incomplete_as_failed_all(t, ts) ==
    [i \in DOMAIN t |->
        [t[i] EXCEPT !.status = "failed", !.error = RestartError,
                     !.completed_at = ts]]

mark_incomplete_as_failed_queued(t, ts) ==
    [i \in DOMAIN t |->
        IF t[i].status = "queued"
        THEN [t[i] EXCEPT !.status = "failed", !.error = RestartError,
                          !.completed_at = ts]
        ELSE t[i]]

mark_incomplete_as_failed_clears_started(t, ts) ==
    [i \in DOMAIN t |->
        [t[i] EXCEPT !.status = IF @ \in {"queued", "running"} THEN "failed" ELSE @,
                     !.error = IF t[i].status \in {"queued", "running"}
                               THEN RestartError ELSE @,
                     !.started_at = NoTime,
                     !.completed_at = IF t[i].status \in {"queued", "running"}
                                      THEN ts ELSE @]]

\* UPDATE tasks SET status='failed', error=..., completed_at=?
\* WHERE status IN ('queued', 'running')
mark_incomplete_as_failed(t, ts) ==
    [i \in DOMAIN t |->
        IF t[i].status \in {"queued", "running"}
        THEN [t[i] EXCEPT !.status = "failed", !.error = RestartError,
                          !.completed_at = ts]
        ELSE t[i]]

update_status_swapped(t, task_id, status, started_at, completed_at, result, error) ==
    IF task_id \notin DOMAIN t THEN t
    ELSE [t EXCEPT ![task_id] =
            [@ EXCEPT !.status = status,
                      !.completed_at = IF started_at # NoTime THEN started_at ELSE @,
                      !.started_at = IF completed_at # NoTime THEN completed_at ELSE @,
                      !.result = IF result # None THEN result ELSE @,
                      !.error = IF error # None THEN error ELSE @]]

update_status_no_started(t, task_id, status, started_at, completed_at, result, error) ==
    IF task_id \notin DOMAIN t THEN t
    ELSE [t EXCEPT ![task_id] =
            [@ EXCEPT !.status = status,
                      !.completed_at = IF completed_at # NoTime THEN completed_at ELSE @,
                      !.result = IF result # None THEN result ELSE @,
                      !.error = IF error # None THEN error ELSE @]]

\* update_status: status always; the other columns only when the argument is
\* given (a timestamp, a non-None string).  An unknown id updates no row.
update_status(t, task_id, status, started_at, completed_at, result, error) ==
    IF task_id \notin DOMAIN t THEN t
    ELSE [t EXCEPT ![task_id] =
            [@ EXCEPT !.status = status,
                      !.started_at = IF started_at # NoTime THEN started_at ELSE @,
                      !.completed_at = IF completed_at # NoTime THEN completed_at ELSE @,
                      !.result = IF result # None THEN result ELSE @,
                      !.error = IF error # None THEN error ELSE @]]

\* update_callback_attempt: both columns are always written
update_callback_attempt(t, task_id, attempts, error) ==
    IF task_id \notin DOMAIN t THEN t
    ELSE [t EXCEPT ![task_id] =
            [@ EXCEPT !.callback_attempts = attempts,
                      !.last_callback_error = error]]

\* ------------------------------------------------------------------- Init

\* delete_task: DELETE FROM tasks WHERE task_id = ?; the table without the
\* row, and whether a row was deleted (cursor.rowcount > 0)
delete_task_row(t, task_id) ==
    [tasks |-> [i \in DOMAIN t \ {task_id} |-> t[i]],
     deleted |-> task_id \in DOMAIN t]

CallbackPayload_no_error(task_id, status, result, error, completed_at) ==
    [task_id |-> task_id, status |-> status, result |-> result,
     error |-> None, completed_at |-> completed_at]

\* models.CallbackPayload as _send_callback builds it from its arguments
CallbackPayload(task_id, status, result, error, completed_at) ==
    [task_id |-> task_id, status |-> status, result |-> result,
     error |-> error, completed_at |-> completed_at]

\* _send_callback has not been entered: no payload
NoPayload ==
    [task_id |-> NoTask, status |-> None, result |-> None,
     error |-> None, completed_at |-> NoTime]

\* a worker coroutine that holds no task: its locals are unset
Idle(pc) ==
    [pc |-> pc, task_id |-> NoTask, started_at |-> NoTime,
     callback_url |-> None, how |-> None, completed_at |-> NoTime,
     attempt |-> 0, post_error |-> None, sleeping |-> 0,
     payload |-> NoPayload]

\* TaskQueue.__init__ and an empty table
Init ==
    /\ tasks = << >>
    /\ phase = "boot"
    /\ queue = << >>
    /\ current_task_id = NoTask
    /\ running = FALSE
    /\ w = Idle("none")
    /\ stopping = FALSE
    /\ orphans = {}
    /\ now = 0
    /\ next_id = 0
    /\ epoch = 0
    /\ born = << >>
    /\ enqueued = << >>
    /\ stop_called = FALSE
    /\ processed = << >>
    /\ posts = [i \in TaskIds |-> << >>]
    /\ delivered = {}

\* ---------------------------------------------------------------- server

\* init_database: initialize() creates the table if missing (no row changes),
\* then mark_incomplete_as_failed()
init_database(t, ts) == mark_incomplete_as_failed(t, ts)

AcceptsRequests_early(p) == p \in {"boot", "serving"}

\* lifespan yields (the application starts serving requests and running
\* coroutines) only after `await init_database()` has returned
AcceptsRequests(p) == p = "serving"

\* lifespan(): startup part
lifespan_startup ==
    /\ phase = "boot"
    /\ tasks' = init_database(tasks, now)
    /\ phase' = "serving"
    /\ UNCHANGED <<queue, current_task_id, running, w, stopping, orphans,
                   now, next_id, history>>

ValidTimeout_min_only(timeout) == MIN_TASK_TIMEOUT <= timeout

\* TaskRequest.timeout: Field(ge=30, le=3600)
ValidTimeout(timeout) == MIN_TASK_TIMEOUT <= timeout /\ timeout <= MAX_TASK_TIMEOUT

\* POST /tasks as FastAPI serves it.  The body is validated against
\* TaskRequest first: an invalid one is answered 422 and the handler is not
\* called.  Else create_task(request): the id is a fresh uuid4 (n counts the
\* ids drawn), the row is inserted with status queued, and the handler
\* answers 201 without calling task_queue.add_task ("In Phase 3, we'll add
\* the task to the queue here").
post_tasks(t, n, callback_url, timeout, ts) ==
    IF ValidTimeout(timeout)
    THEN [status_code |-> 201, task_id |-> n + 1, next_id |-> n + 1,
          tasks |-> create_task_row(t, n + 1, callback_url, timeout, ts)]
    ELSE [status_code |-> 422, task_id |-> NoTask, next_id |-> n, tasks |-> t]

\* a caller sends POST /tasks
create_task ==
    /\ AcceptsRequests(phase)
    /\ next_id < NumTasks
    /\ \E callback_url \in CallbackUrls, timeout \in RequestTimeouts :
        LET response == post_tasks(tasks, next_id, callback_url, timeout, now) IN
            /\ tasks' = response.tasks
            /\ next_id' = response.next_id
            /\ born' = IF response.status_code = 201
                       THEN born @@ (response.task_id :> epoch)
                       ELSE born
    /\ UNCHANGED <<phase, queue, current_task_id, running, w, stopping,
                   orphans, now, epoch, enqueued, stop_called, processed,
                   posts, delivered>>

\* ------------------------------------------------------------- TaskQueue

\* add_task(task_id): queue.put(task_id) on the unbounded asyncio.Queue
add_task ==
    /\ AcceptsRequests(phase)
    /\ \E task_id \in DOMAIN tasks :
        /\ tasks[task_id].status = "queued"
        /\ task_id \notin Range(enqueued)
        /\ queue' = Append(queue, task_id)
        /\ enqueued' = Append(enqueued, task_id)
    /\ UNCHANGED <<tasks, phase, current_task_id, running, w, stopping,
                   orphans, now, next_id, epoch, born, stop_called,
                   processed, posts,
                   delivered>>

\* start(): no-op when running; else running = True and a new worker task.
\* A previous worker task that never ended (its Executor ignores the
\* cancellation) is left behind with its Executor call in flight.
start ==
    /\ AcceptsRequests(phase)
    /\ IF running
       THEN UNCHANGED vars
       ELSE /\ running' = TRUE
            /\ w' = Idle("get")
            /\ orphans' = IF w.pc = "hung" THEN orphans \cup {w.task_id}
                          ELSE orphans
            /\ UNCHANGED <<tasks, phase, queue, current_task_id, stopping,
                           now, next_id, history>>

\* what worker_task.cancel() makes of the worker: CancelledError is raised at
\* the await the worker is suspended in, passes _execute_task (it is no
\* Exception) and is caught by `except asyncio.CancelledError: break`: the
\* loop ends where it stands.  A worker whose Executor ignores the
\* cancellation stays where it is.
cancel(worker) ==
    IF worker.pc \in {"none", "hung"} THEN worker ELSE Idle("ended")

\* stop(): running = False; cancel the worker task and await it
stop ==
    /\ AcceptsRequests(phase)
    /\ running' = FALSE
    /\ stop_called' = TRUE
    /\ w' = cancel(w)
    /\ stopping' = (stopping \/ w.pc = "hung")
    /\ UNCHANGED <<tasks, phase, queue, current_task_id, orphans, now,
                   next_id, epoch, born, enqueued, processed, posts,
                   delivered>>

\* --------------------------------------------------------------- _worker

\* get_current_task(): {"task_id": current_task_id} if current_task_id is
\* set, else None
get_current_task == IF current_task_id # NoTask THEN current_task_id ELSE NoTask

queue_get_last(q) == <<q[Len(q)], SubSeq(q, 1, Len(q) - 1)>>

queue_get_peek(q) == <<Head(q), q>>

\* queue.get() on the FIFO asyncio.Queue: the oldest id and the rest
queue_get(q) == <<Head(q), Tail(q)>>

\* _worker: wait_for(queue.get(), 1.0) returned an id: current_task_id = id,
\* then _execute_task up to its first await (started_at = utcnow(), get_task)
worker_dequeue ==
    /\ running
    /\ w.pc = "get"
    /\ queue # << >>
    /\ LET got == queue_get(queue) IN
        /\ current_task_id' = got[1]
        /\ queue' = got[2]
        /\ w' = [Idle("get_task") EXCEPT !.task_id = got[1], !.started_at = now]
    /\ UNCHANGED <<tasks, phase, running, stopping, orphans, now, next_id,
                   history>>

\* _worker: wait_for(queue.get(), 1.0) timed out on the empty queue: continue
worker_idle ==
    /\ running
    /\ w.pc = "get"
    /\ queue = << >>
    /\ UNCHANGED vars

\* _worker after _execute_task returned: current_task_id = None, task_done(),
\* back to `while self.running` and the next queue.get()
WorkerLoops ==
    /\ current_task_id' = NoTask
    /\ w' = Idle("get")
    /\ processed' = processed @@
                    (w.task_id :> IF w.how = None THEN "norow" ELSE w.how)

WorkerGoes(pc) ==
    /\ w' = [w EXCEPT !.pc = pc]
    /\ UNCHANGED <<current_task_id, processed>>

execute_get_task_no_check ==
    /\ w.pc = "get_task"
    /\ w' = [w EXCEPT !.pc = "set_running",
                      !.callback_url = IF w.task_id \in DOMAIN tasks
                                       THEN tasks[w.task_id].callback_url
                                       ELSE None]
    /\ UNCHANGED <<tasks, phase, queue, current_task_id, running, stopping,
                   orphans, now, next_id, history>>

\* _execute_task: get_task returned.  No row: log and return.  Else
\* `await db.update_status(running)` is next.
execute_get_task ==
    /\ w.pc = "get_task"
    /\ IF w.task_id \notin DOMAIN tasks
       THEN WorkerLoops
       ELSE /\ w' = [w EXCEPT !.pc = "set_running",
                              !.callback_url = tasks[w.task_id].callback_url]
            /\ UNCHANGED <<current_task_id, processed>>
    /\ UNCHANGED <<tasks, phase, queue, running, stopping, orphans, now,
                   next_id, epoch, born, enqueued, stop_called, posts,
                   delivered>>

execute_skip_running ==
    /\ w.pc = "set_running"
    /\ w' = [w EXCEPT !.pc = "exec"]
    /\ UNCHANGED <<tasks, phase, queue, current_task_id, running, stopping,
                   orphans, now, next_id, history>>

\* _execute_task: update_status(running, started_at) done; the worker builds
\* the description and awaits the Executor in _run_browser_task
execute_set_running ==
    /\ w.pc = "set_running"
    /\ tasks' = update_status(tasks, w.task_id, "running", w.started_at,
                              NoTime, None, None)
    /\ w' = [w EXCEPT !.pc = "exec"]
    /\ UNCHANGED <<phase, queue, current_task_id, running, stopping, orphans,
                   now, next_id, history>>

\* _run_browser_task ends: Agent.run returned, Browser/Agent raised, or
\* wait_for ran out and the Executor honoured the cancellation.
\* completed_at = utcnow() is read, `await db.update_status(...)` is next.
executor_ends ==
    /\ w.pc = "exec"
    /\ \E how \in {"returned", "raised", "timed_out"} :
        w' = [w EXCEPT !.pc = "set_final", !.how = how, !.completed_at = now]
    /\ UNCHANGED <<tasks, phase, queue, current_task_id, running, stopping,
                   orphans, now, next_id, history>>

\* the Executor neither returns nor honours a cancellation: wait_for keeps
\* waiting for the cancelled call, and so does the worker
executor_hangs ==
    /\ w.pc = "exec"
    /\ w' = [w EXCEPT !.pc = "hung"]
    /\ UNCHANGED <<tasks, phase, queue, current_task_id, running, stopping,
                   orphans, now, next_id, history>>

FinalStatus_no_timeout(how) ==
    IF how = "returned" THEN "completed" ELSE "failed"

\* the status _execute_task writes for what _run_browser_task did: after the
\* call returned, "completed"; in `except asyncio.TimeoutError`, "timeout";
\* in `except Exception`, "failed"
FinalStatus(how) ==
    CASE how = "returned" -> "completed"
      [] how = "timed_out" -> "timeout"
      [] OTHER -> "failed"

FinalResult_none(how) == None

\* the result and error arguments of that update_status call
FinalResult(how) == IF how = "returned" THEN ResultStr ELSE None

FinalError_always(how) == ExecutionError

FinalError(how) ==
    CASE how = "returned" -> None
      [] how = "timed_out" -> TimeoutError
      [] OTHER -> ExecutionError

\* _execute_task calls _send_callback(task_id, callback_url, status, result,
\* error, completed_at) with the values it passed to update_status:
\* _send_callback builds the payload and awaits the POST of attempt 0
SendCallback(callback_url) ==
    /\ w' = [w EXCEPT !.pc = "cb_post", !.callback_url = callback_url,
                      !.payload = CallbackPayload(w.task_id, FinalStatus(w.how),
                                                  FinalResult(w.how),
                                                  FinalError(w.how),
                                                  w.completed_at)]
    /\ UNCHANGED <<current_task_id, processed>>

\* _execute_task: the terminal update_status is done.  completed and timeout
\* read callback_url from the row fetched at the start and go on to
\* _send_callback (first await: the POST of attempt 0); failed fetches the
\* row again first.
execute_set_final ==
    /\ w.pc = "set_final"
    /\ tasks' = update_status(tasks, w.task_id, FinalStatus(w.how), NoTime,
                              w.completed_at, FinalResult(w.how),
                              FinalError(w.how))
    /\ IF FinalStatus(w.how) = "failed"
       THEN WorkerGoes("refetch")
       ELSE IF w.callback_url # None
            THEN SendCallback(w.callback_url)
            ELSE WorkerLoops
    /\ UNCHANGED <<phase, queue, running, stopping, orphans, now, next_id,
                   epoch, born, enqueued, stop_called, posts,
                   delivered>>

\* _execute_task, failed path: `task = await db.get_task(task_id)` returned
execute_refetch ==
    /\ w.pc = "refetch"
    /\ IF w.task_id \in DOMAIN tasks /\ tasks[w.task_id].callback_url # None
       THEN SendCallback(tasks[w.task_id].callback_url)
       ELSE WorkerLoops
    /\ UNCHANGED <<tasks, phase, queue, running, stopping, orphans, now,
                   next_id, epoch, born, enqueued, stop_called, posts,
                   delivered>>

\* -------------------------------------------------------- _send_callback

wait_time_constant(attempt) == WEBHOOK_RETRY_DELAY

\* wait_time = WEBHOOK_RETRY_DELAY * (2 ** attempt), attempt counted from 0
wait_time(attempt) == WEBHOOK_RETRY_DELAY * 2^attempt

\* the worker calls asyncio.sleep(seconds)
WorkerSleeps(seconds) ==
    /\ w' = [w EXCEPT !.pc = "cb_sleep", !.sleeping = seconds]
    /\ UNCHANGED <<current_task_id, processed>>

\* one pass of `for attempt in range(WEBHOOK_RETRY_ATTEMPTS)`: the POST of
\* payload.model_dump() ends, with a 2xx answer or with an exception
callback_post ==
    /\ w.pc = "cb_post"
    /\ posts' = [posts EXCEPT ![w.task_id] = Append(@, w.payload.status)]
    /\ \E ok \in BOOLEAN :
        /\ w' = [w EXCEPT !.pc = "cb_record",
                          !.post_error = IF ok THEN None ELSE CallbackError]
        /\ delivered' = IF ok THEN delivered \cup {w.task_id} ELSE delivered
    /\ UNCHANGED <<tasks, phase, queue, current_task_id, running, stopping,
                   orphans, now, next_id, epoch, born, enqueued, stop_called,
                   processed>>

callback_record_retries_after_success ==
    /\ w.pc = "cb_record"
    /\ tasks' = update_callback_attempt(tasks, w.task_id, w.attempt + 1,
                                        w.post_error)
    /\ IF w.attempt < WEBHOOK_RETRY_ATTEMPTS - 1
       THEN WorkerSleeps(wait_time(w.attempt))
       ELSE WorkerLoops
    /\ UNCHANGED <<phase, queue, running, stopping, orphans, now, next_id,
                   epoch, born, enqueued, stop_called, posts, delivered>>

callback_record_counts_from_zero ==
    /\ w.pc = "cb_record"
    /\ tasks' = update_callback_attempt(tasks, w.task_id, w.attempt,
                                        w.post_error)
    /\ IF w.post_error # None /\ w.attempt < WEBHOOK_RETRY_ATTEMPTS - 1
       THEN WorkerSleeps(wait_time(w.attempt))
       ELSE WorkerLoops
    /\ UNCHANGED <<phase, queue, running, stopping, orphans, now, next_id,
                   epoch, born, enqueued, stop_called, posts, delivered>>

\* update_callback_attempt(task_id, attempt + 1, error) is done.  Success:
\* return.  Failure: asyncio.sleep(wait_time) unless this was the last
\* attempt.
callback_record ==
    /\ w.pc = "cb_record"
    /\ tasks' = update_callback_attempt(tasks, w.task_id, w.attempt + 1,
                                        w.post_error)
    /\ IF w.post_error # None /\ w.attempt < WEBHOOK_RETRY_ATTEMPTS - 1
       THEN WorkerSleeps(wait_time(w.attempt))
       ELSE WorkerLoops
    /\ UNCHANGED <<phase, queue, running, stopping, orphans, now, next_id,
                   epoch, born, enqueued, stop_called, posts,
                   delivered>>

\* asyncio.sleep(WEBHOOK_RETRY_DELAY * 2 ** attempt) is over: next attempt
callback_sleep ==
    /\ w.pc = "cb_sleep"
    /\ w' = [w EXCEPT !.pc = "cb_post", !.attempt = @ + 1, !.sleeping = 0]
    /\ UNCHANGED <<tasks, phase, queue, current_task_id, running, stopping,
                   orphans, now, next_id, history>>

\* ----------------------------------------------------------- environment

\* `await db.update_callback_attempt(...)` raises (the store fails, e.g.
\* sqlite3.OperationalError).  After a successful POST the call stands in the
\* `try` of the loop: `except Exception` takes it for a failed attempt and
\* records that next.  After a failed POST the call stands in the `except`
\* clause and the exception leaves _send_callback: when _send_callback was
\* called from the `try` body of _execute_task (the completed path),
\* `except Exception` of _execute_task catches it, reads completed_at and
\* awaits update_status("failed"); when it was called from an `except`
\* clause (timeout, failed), it leaves _execute_task and _worker's
\* `except Exception` sets current_task_id = None and loops.
callback_record_fails ==
    /\ w.pc = "cb_record"
    /\ IF w.post_error = None
       THEN /\ w' = [w EXCEPT !.post_error = CallbackError]
            /\ UNCHANGED <<current_task_id, processed>>
       ELSE IF w.how = "returned"
            THEN /\ w' = [w EXCEPT !.pc = "set_final", !.how = "raised",
                                   !.completed_at = now, !.attempt = 0,
                                   !.post_error = None,
                                   !.payload = NoPayload]
                 /\ UNCHANGED <<current_task_id, processed>>
            ELSE WorkerLoops
    /\ UNCHANGED <<tasks, phase, queue, running, stopping, orphans, now,
                   next_id, epoch, born, enqueued, stop_called, posts,
                   delivered>>

\* db.delete_task(task_id) is called (it has no caller in the repository;
\* here an operator of the store calls it for any id while the application
\* serves)
delete_task ==
    /\ AcceptsRequests(phase)
    /\ \E task_id \in TaskIds :
        tasks' = delete_task_row(tasks, task_id).tasks
    /\ UNCHANGED <<phase, queue, current_task_id, running, w, stopping,
                   orphans, now, next_id, history>>

\* the process is terminated and started again: the TaskQueue singleton is
\* built anew (__init__), the table stays
restart ==
    /\ phase = "serving"
    /\ epoch < MaxRestarts
    /\ epoch' = epoch + 1
    /\ phase' = "boot"
    /\ queue' = << >>
    /\ current_task_id' = NoTask
    /\ running' = FALSE
    /\ w' = Idle("none")
    /\ stopping' = FALSE
    /\ orphans' = {}
    /\ stop_called' = FALSE
    /\ enqueued' = << >>
    /\ processed' = << >>
    /\ UNCHANGED <<tasks, now, next_id, born, posts,
                   delivered>>

\* datetime.utcnow() advances
tick ==
    /\ now < MaxClock
    /\ now' = now + 1
    /\ UNCHANGED <<tasks, phase, queue, current_task_id, running, w,
                   stopping, orphans, next_id, history>>

\* ------------------------------------------------------- specifications

Next ==
    \/ lifespan_startup
    \/ create_task
    \/ add_task
    \/ start
    \/ stop
    \/ worker_dequeue
    \/ worker_idle
    \/ execute_get_task
    \/ execute_set_running
    \/ executor_ends
    \/ execute_set_final
    \/ execute_refetch
    \/ callback_post
    \/ callback_record
    \/ callback_sleep
    \/ restart

\* the server with a cooperative Executor and the clock standing still
Spec == Init /\ [][Next]_vars

\* the same with the clock advancing
TimedSpec == Init /\ [][Next \/ tick]_vars

\* the same with an Executor that may ignore cancellation
HangNext == Next \/ executor_hangs

HangSpec == Init /\ [][HangNext]_vars

\* a step of the worker coroutine: the event loop resumes a coroutine whose
\* await has completed
WorkerStep ==
    \/ worker_dequeue
    \/ execute_get_task
    \/ execute_set_running
    \/ executor_ends
    \/ executor_hangs
    \/ execute_set_final
    \/ execute_refetch
    \/ callback_post
    \/ callback_record
    \/ callback_sleep

FairSpec == HangSpec /\ WF_vars(WorkerStep)

\* the server with a store whose update_callback_attempt may raise
FaultNext == Next \/ callback_record_fails

FaultSpec == Init /\ [][FaultNext]_vars

\* the server with records being deleted from the store
DeleteNext == Next \/ delete_task

DeleteSpec == Init /\ [][DeleteNext]_vars

\* ------------------------------------------------------------------ claims

RunningIds == {i \in DOMAIN tasks : tasks[i].status = "running"}

\* C1: at every moment at most one task record has status running.
C1_AtMostOneRunning == Cardinality(RunningIds) <= 1

ReconcileStep == phase = "boot" /\ phase' = "serving"

C4_SubmitEnqueues ==
    [][\A i \in TaskIds :
         (i \notin DOMAIN tasks /\ i \in DOMAIN tasks') => i \in Range(queue')]_vars

\* what reconciliation leaves: no queued or running record; those it found
\* are failed with the given reason and a completed_at
ReconciledWith(reason) ==
    ReconcileStep =>
        \A i \in DOMAIN tasks :
            /\ tasks'[i].status \notin {"queued", "running"}
            /\ tasks[i].status \in {"queued", "running"} =>
                /\ tasks'[i].status = "failed"
                /\ tasks'[i].error = reason
                /\ tasks'[i].completed_at # NoTime

\* C5 as stated: after reconciliation no record is queued or running; those
\* that were are failed with reason "server restarted during execution" and
\* a completed_at.
C5_ReasonAsStated == [][ReconciledWith("server restarted during execution")]_vars

\* C5 amended: the same, with the reason the code writes,
\* "Server restarted during execution".
C5_Reconciled == [][ReconciledWith("Server restarted during execution")]_vars

\* reconciliation has failed a record it found running and one it found queued
C5_Witness ==
    /\ phase = "serving"
    /\ \E i, j \in DOMAIN tasks :
        /\ tasks[i].status = "failed" /\ tasks[i].error = RestartError
        /\ tasks[i].started_at # NoTime
        /\ tasks[j].status = "failed" /\ tasks[j].error = RestartError
        /\ tasks[j].started_at = NoTime

\* C6: in every process lifetime reconciliation completes before a
\* submission is accepted and before the worker dequeues, and it changes no
\* record created in the current lifetime.
C6_ReconcileFirst ==
    [][/\ DOMAIN tasks' # DOMAIN tasks => phase = "serving"
       /\ current_task_id' # current_task_id => phase = "serving"
       /\ ReconcileStep =>
            \A i \in DOMAIN tasks : tasks'[i] # tasks[i] => born[i] < epoch]_vars

\* in a second lifetime: an old record was failed by reconciliation, a new
\* record has been created and the worker has dequeued
C6_Witness ==
    /\ epoch > 0
    /\ current_task_id # NoTask
    /\ \E i, j \in DOMAIN tasks :
        /\ born[i] < epoch /\ tasks[i].error = RestartError
        /\ born[j] = epoch

\* C7: while stop() has not been called, for any two ids enqueued in the
\* order A, B: B's record has left queued only if A's record is terminal.
C7_Fifo ==
    ~stop_called =>
        \A a, b \in DOMAIN enqueued :
            (/\ a < b
             /\ enqueued[a] \in DOMAIN tasks
             /\ enqueued[b] \in DOMAIN tasks
             /\ tasks[enqueued[b]].status # "queued")
                => tasks[enqueued[a]].status \in Terminal

\* the later-created record was enqueued first and is terminal; the other
\* is running
C7_Witness ==
    /\ ~stop_called
    /\ enqueued = <<2, 1>>
    /\ tasks[2].status \in Terminal
    /\ tasks[1].status = "running"

\* C8: after stop() has returned (the worker loop has ended) no record is
\* left with status running.
C8_StopLeavesNoRunning == w.pc = "ended" => RunningIds = {}

\* C9: while the worker is not stopped, every id waiting in the queue is
\* eventually dequeued, whatever the Executor did for the ids before it.
C9_QueueDrains ==
    \A i \in TaskIds :
        (running /\ i \in Range(queue)) ~> (~running \/ i \notin Range(queue))

\* what the worker leaves of a task with a callback whose Executor timed
\* out, once _execute_task has returned
TimedOutLeaves(status) ==
    \A i \in DOMAIN processed :
        (/\ processed[i] = "timed_out"
         /\ i \in DOMAIN tasks
         /\ tasks[i].callback_url # None)
            => /\ tasks[i].status = status
               /\ tasks[i].error # None
               /\ tasks[i].result = None
               /\ posts[i] # << >>
               /\ posts[i][1] = status

\* C10 as stated: the record has status timed_out, a failure reason and no
\* result, and a POST with payload status timed_out was attempted.
C10_TimedOutAsStated == TimedOutLeaves("timed_out")

\* C10 amended: the same with the status the code writes, timeout.
C10_Timeout == TimedOutLeaves("timeout")

\* the worker has finished a task with a callback whose Executor timed out
C10_Witness ==
    \E i \in DOMAIN processed :
        /\ processed[i] = "timed_out"
        /\ i \in DOMAIN tasks
        /\ tasks[i].callback_url # None

\* C11: a record without a callback endpoint always has callback_attempts = 0
\* and no POST is made for it; when the worker has finished such a task whose
\* Executor returned a result string, the record is completed with that
\* string as result and no failure reason.
C11_NoCallbackCompleted ==
    \A i \in DOMAIN tasks :
        tasks[i].callback_url = None =>
            /\ tasks[i].callback_attempts = 0
            /\ posts[i] = << >>
            /\ (i \in DOMAIN processed /\ processed[i] = "returned") =>
                    /\ tasks[i].status = "completed"
                    /\ tasks[i].result = ResultStr
                    /\ tasks[i].error = None

\* the worker has finished a task without callback whose Executor returned,
\* after it had delivered the callback of another task
C11_Witness ==
    \E i, j \in DOMAIN processed :
        /\ i \in DOMAIN tasks /\ j \in DOMAIN tasks
        /\ tasks[i].callback_url = None
        /\ processed[i] = "returned"
        /\ tasks[j].callback_url # None
        /\ tasks[j].callback_attempts > 0

C14_Backoff ==
    w.pc = "cb_sleep" =>
        LET n == Len(posts[w.task_id]) IN
            /\ n >= 1
            /\ n < WEBHOOK_RETRY_ATTEMPTS
            /\ w.sleeping = WEBHOOK_RETRY_DELAY * 2^(n - 1)
            /\ \A m \in 1..(n - 1) : WEBHOOK_RETRY_DELAY * 2^(m - 1) < w.sleeping
            /\ w.task_id \in DOMAIN tasks =>
                    /\ tasks[w.task_id].callback_attempts = n
                    /\ tasks[w.task_id].last_callback_error # None

\* the worker waits after the second failed attempt
C14_Witness ==
    /\ w.pc = "cb_sleep"
    /\ Len(posts[w.task_id]) = 2
    /\ w.sleeping = 4

\* C15: whatever happens during webhook delivery, a record whose status is
\* terminal keeps its status, result and failure reason; and every step that
\* records a delivery attempt leaves last_callback_error empty exactly when
\* a POST for the task has succeeded.
C15_DeliveryNeverFailsTask ==
    [][\A i \in DOMAIN tasks \cap DOMAIN tasks' :
         /\ tasks[i].status \in Terminal =>
                /\ tasks'[i].status = tasks[i].status
                /\ tasks'[i].result = tasks[i].result
                /\ tasks'[i].error = tasks[i].error
         /\ (\/ tasks'[i].callback_attempts # tasks[i].callback_attempts
             \/ tasks'[i].last_callback_error # tasks[i].last_callback_error)
                => (tasks'[i].last_callback_error = None <=> i \in delivered)]_vars

\* the webhook delivery of task i (its POSTs, their recording and the waits
\* between them) has begun and is not over
DeliveryInProgress(i) ==
    /\ w.task_id = i
    /\ w.pc \in {"cb_post", "cb_record", "cb_sleep"}

\* C16: while the webhook delivery of a task whose terminal state is
\* persisted is in progress, the worker running and an id waiting in the
\* queue, the worker can dequeue that id.
C16_DeliveryDoesNotBlock ==
    \A i \in DOMAIN tasks :
        (/\ DeliveryInProgress(i)
         /\ tasks[i].status \in Terminal
         /\ running
         /\ queue # << >>)
            => ENABLED worker_dequeue

\* C17: every record with a callback endpoint that is in a terminal state,
\* whichever step put it there, eventually has a webhook POST attempted whose
\* payload carries that state.
C17_TerminalNotified ==
    \A i \in TaskIds :
        (/\ i \in DOMAIN tasks
         /\ tasks[i].callback_url # None
         /\ tasks[i].status \in Terminal)
            ~> (/\ i \in DOMAIN tasks
                /\ \E k \in DOMAIN posts[i] : posts[i][k] = tasks[i].status)

\* C18: the number of ids waiting in the in-memory queue never exceeds
\* MAX_QUEUE_SIZE.
C18_QueueBounded == Len(queue) <= MAX_QUEUE_SIZE

\* C19: a POST /tasks whose timeout is below MIN_TASK_TIMEOUT or above
\* MAX_TASK_TIMEOUT is answered with a validation error and changes nothing:
\* no record is created and no id is drawn (the handler, which touches no
\* queue, is not called); hence no record ever holds such a timeout.
C19_InvalidTimeoutRejected ==
    /\ \A callback_url \in CallbackUrls, timeout \in RequestTimeouts :
        (timeout < MIN_TASK_TIMEOUT \/ timeout > MAX_TASK_TIMEOUT) =>
            LET response == post_tasks(tasks, next_id, callback_url, timeout, now) IN
                /\ response.status_code = 422
                /\ response.tasks = tasks
                /\ response.next_id = next_id
    /\ \A i \in DOMAIN tasks :
        /\ tasks[i].timeout >= MIN_TASK_TIMEOUT
        /\ tasks[i].timeout <= MAX_TASK_TIMEOUT

\* the server accepts requests, holds records already, and callers send
\* timeouts below the minimum and above the maximum
C19_Witness ==
    /\ AcceptsRequests(phase)
    /\ next_id < NumTasks
    /\ DOMAIN tasks # {}
    /\ ENABLED create_task
    /\ \E timeout \in RequestTimeouts : timeout < MIN_TASK_TIMEOUT
    /\ \E timeout \in RequestTimeouts : timeout > MAX_TASK_TIMEOUT

\* C20: every step that creates a record creates exactly one, under an id
\* no existing record has, and leaves the existing records as they were; a
\* get of the new id right after the step returns a record with status
\* queued, no started_at, no completed_at, no result, no failure reason and
\* callback_attempts = 0.
C20_FreshQueued ==
    [][DOMAIN tasks' # DOMAIN tasks =>
         \E i \in DOMAIN tasks' \ DOMAIN tasks :
            /\ DOMAIN tasks' = DOMAIN tasks \cup {i}
            /\ \A j \in DOMAIN tasks : get_task(tasks', j) = get_task(tasks, j)
            /\ LET row == get_task(tasks', i) IN
                /\ row.status = "queued"
                /\ row.started_at = NoTime
                /\ row.completed_at = NoTime
                /\ row.result = None
                /\ row.error = None
                /\ row.callback_attempts = 0]_vars

\* a record has been created while an earlier one was already terminal and
\* notified
C20_Witness ==
    \E i, j \in DOMAIN tasks :
        /\ i < j
        /\ tasks[i].status \in Terminal
        /\ tasks[i].callback_attempts > 0
        /\ tasks[j].status = "queued"

C22_TimestampsOrdered ==
    \A i \in DOMAIN tasks :
        LET r == tasks[i] IN
            /\ r.started_at # NoTime => r.created_at <= r.started_at
            /\ r.completed_at # NoTime => r.created_at <= r.completed_at
            /\ (r.started_at # NoTime /\ r.completed_at # NoTime)
                    => r.started_at <= r.completed_at
            /\ r.status = "queued" =>
                    (r.started_at = NoTime /\ r.completed_at = NoTime)

\* the clock has advanced between the start and the end of one task, and
\* between the creation of another and its reconciliation
C22_Witness ==
    \E i, j \in DOMAIN tasks :
        /\ tasks[i].started_at # NoTime
        /\ tasks[i].started_at < tasks[i].completed_at
        /\ tasks[j].started_at = NoTime
        /\ tasks[j].completed_at # NoTime
        /\ tasks[j].created_at < tasks[j].completed_at

\* the record was forced to failed by the startup reconciliation
ForcedByReconciliation(r) == r.status = "failed" /\ r.error = RestartError

\* C23: every record that was not forced to failed by the startup
\* reconciliation has started_at set exactly when its status is running,
\* completed, failed or timeout; so every record the worker took to a
\* terminal status has started_at set.
C23_StartedIffLeftQueued ==
    \A i \in DOMAIN tasks :
        ~ForcedByReconciliation(tasks[i]) =>
            (tasks[i].started_at # NoTime
                <=> tasks[i].status \in {"running"} \cup Terminal)

\* the worker has taken one record to timeout; the reconciliation has failed
\* another that never started
C23_Witness ==
    \E i, j \in DOMAIN tasks :
        /\ tasks[i].status = "timeout"
        /\ i \in DOMAIN processed
        /\ ForcedByReconciliation(tasks[j])
        /\ tasks[j].started_at = NoTime

\* the worker loops that have been started and have not ended: the one held
\* in worker_task, and those start() left behind blocked in their Executor
ActiveWorkerLoops ==
    (IF w.pc \in {"none", "ended"} THEN 0 ELSE 1) + Cardinality(orphans)

\* C24: after any calls of start() and stop(), at most one worker loop is
\* active.
C24_OneWorkerLoop == ActiveWorkerLoops <= 1

\* C25: a stop() that waits for the worker loop to end eventually returns.
C25_StopReturns == stopping ~> ~stopping

\* the Executor calls that have begun and not ended
ExecutorCallsInFlight ==
    (IF w.pc \in {"exec", "hung"} THEN {w.task_id} ELSE {}) \cup orphans

\* C26: at every instant at most one Executor call is in flight.
C26_NoExecutorOverlap == Cardinality(ExecutorCallsInFlight) <= 1

\* C27: a store update for an id that has no record leaves the table
\* unchanged and fails: when the worker's update_status(running) finds no
\* record, the worker does not go on to the Executor as after a successful
\* update.
C27_UnknownIdUpdateFails ==
    [][(/\ w.pc = "set_running"
        /\ w.task_id \notin DOMAIN tasks
        /\ w'.pc # w.pc)
            => (tasks' = tasks /\ w'.pc # "exec")]_vars

\* the worker loop holds id i: it has dequeued it and not yet gone back to
\* the queue
WorkerHolds(i) == w.task_id = i /\ w.pc \notin {"none", "get", "ended"}

\* the ids taken from the queue in this process lifetime
Dequeued == Range(enqueued) \ Range(queue)

\* C28: every id that was dequeued, that has a record and that the worker
\* no longer holds is resolved: its record is completed, failed or timeout
\* with completed_at set; none is left queued or running.
C28_DequeuedResolved ==
    \A i \in Dequeued \cap DOMAIN tasks :
        ~WorkerHolds(i) =>
            /\ tasks[i].status \in Terminal
            /\ tasks[i].completed_at # NoTime

\* C29: an id is dequeued only if it was never dequeued before, the Executor
\* is invoked only for a record that was never started, the queue never holds
\* an id twice, and while stop() has not been called every enqueued id is
\* in the queue, held by the worker or done with.
C29_AtMostOnce ==
    [][/\ \A i \in TaskIds :
            /\ (current_task_id' = i /\ current_task_id # i) =>
                    /\ i \in Range(queue)
                    /\ i \notin Range(queue')
                    /\ i \notin Dequeued
            /\ (w'.pc = "exec" /\ w.pc # "exec" /\ w'.task_id = i) =>
                    /\ tasks[i].status = "queued"
                    /\ tasks[i].started_at = NoTime
       /\ Cardinality(Range(queue')) = Len(queue')
       /\ ~stop_called' =>
            \A i \in Range(enqueued') :
                \/ i \in Range(queue')
                \/ w'.task_id = i
                \/ i \in DOMAIN processed']_vars

\* two ids were enqueued and the worker, never stopped, is done with both
C29_Witness ==
    /\ ~stop_called
    /\ Len(enqueued) = 2
    /\ \A i \in Range(enqueued) : i \in DOMAIN processed
    /\ w.pc = "get"

\* C30: get_current_task() reports no id whenever the worker loop is not
\* started, waits for the queue, or has ended.
C30_CurrentTaskOnlyWhileExecuting ==
    w.pc \in {"none", "get", "ended"} => get_current_task = NoTask

C32_ReconcileFrame ==
    [][ReconcileStep =>
        /\ DOMAIN tasks' = DOMAIN tasks
        /\ \A i \in DOMAIN tasks :
            /\ tasks[i].status \in Terminal => tasks'[i] = tasks[i]
            /\ tasks'[i] = [tasks[i] EXCEPT !.status = tasks'[i].status,
                                            !.error = tasks'[i].error,
                                            !.completed_at = tasks'[i].completed_at]]_vars

\* the second lifetime serves; reconciliation met a completed record whose
\* callback had been attempted, and a record that was running
C32_Witness ==
    /\ phase = "serving"
    /\ epoch = 1
    /\ \E i, j \in DOMAIN tasks :
        /\ born[i] = 0 /\ born[j] = 0
        /\ tasks[i].status = "completed"
        /\ tasks[i].callback_attempts > 0
        /\ tasks[i].completed_at < now
        /\ tasks[j].status = "failed" /\ tasks[j].error = RestartError
        /\ tasks[j].started_at # NoTime
        /\ tasks[j].completed_at = now

\* the worker's get_task finds no record for the id it dequeued
MeetsNoRecord ==
    /\ w.pc = "get_task"
    /\ w.task_id \notin DOMAIN tasks
    /\ w' # w
    /\ running'
    /\ phase' = "serving"

\* C33: when the record of a dequeued id has been deleted, the worker calls
\* no Executor, writes nothing to the store, sends no callback and returns to
\* the queue for the next id; and a record that has been deleted is never in
\* the store again.
C33_DeletedSkipped ==
    [][/\ MeetsNoRecord =>
            /\ w' = Idle("get")
            /\ current_task_id' = NoTask
            /\ tasks' = tasks
            /\ queue' = queue
            /\ posts' = posts
            /\ delivered' = delivered
            /\ orphans' = orphans
            /\ processed'[w.task_id] = "norow"
       /\ \A i \in DOMAIN born \ DOMAIN tasks : i \notin DOMAIN tasks']_vars

\* the record of id i was deleted while i waited in the queue ahead of j; the
\* worker has skipped i and is serving j
C33_Witness ==
    \E i, j \in DOMAIN born :
        /\ i # j
        /\ i \notin DOMAIN tasks
        /\ i \in DOMAIN processed /\ processed[i] = "norow"
        /\ posts[i] = << >>
        /\ w.task_id = j
        /\ w.pc = "exec"

====
